---- MODULE Spec2Model ----
(***************************************************************************)
(* TransportManager of src/src/utils/transport-manager.ts: startup of the  *)
(* stdio and HTTP transports, the HTTP request router with its security    *)
(* gate, the registry of SSE sessions (sseTransports) and shutdown.        *)
(*                                                                         *)
(* JavaScript runs one handler at a time: an action is the code a handler  *)
(* runs between two suspension points (await, callback).  The SDK adapter  *)
(* (SSEServerTransport), the protocol engine (McpServer.connect), the      *)
(* security validator and the node http listener are the environment:      *)
(* their outcomes are chosen nondeterministically.                         *)
(***************************************************************************)
EXTENDS Integers, Sequences, FiniteSets, TLC

\* Number of SSEServerTransport objects ever constructed (session ids 1..MaxIds).
MaxIds == 3
\* The maxConnections the constructor is given.
MaxConn == 2

Ids == 1 .. MaxIds
NoId == 0

VARIABLES
  config,         \* this.config (supportStdio, supportHttp, supportSse, maxConnections)
  startPc,        \* position of startTransport()
  startError,     \* value the promise of startTransport() rejected with
  subError,       \* error raised by the failing sub-start (history)
  attempts,       \* calls of server.connect(stdio) and of httpServer.listen
  httpServer,     \* this.httpServer and the state of the listener
  sseTransports,  \* this.sseTransports: session ids in Map insertion order
  adapter,        \* the SSEServerTransport of each session id
  nextId,         \* next transport.sessionId the SDK hands out
  post,           \* POST /message handlers awaiting transport.handlePostMessage
  shutdownPc,     \* position of shutdown()
  iter,           \* Map iterator of shutdown's for-of: entries before the cursor
  closing,        \* session whose transport.close() shutdown is awaiting
  closeCalls,     \* sessions on which shutdown invoked transport.close()
  listenerOps,    \* calls of httpServer.close()
  closed,         \* sessions whose close callback has run (history)
  last            \* observation of the handler step that just ran

vars == << config, startPc, startError, subError, attempts, httpServer,
           sseTransports, adapter, nextId, post, shutdownPc, iter, closing,
           closeCalls, listenerOps, closed, last >>

startVars == << startPc, startError, subError, attempts >>
shutVars == << shutdownPc, iter, closing, closeCalls, listenerOps >>

----------------------------------------------------------------------------
\* Values

NoError == [name |-> "none"]
ConnectError == [name |-> "Error", origin |-> "server.connect"]
ListenError == [name |-> "Error", origin |-> "httpServer.listen"]

\* st: "none" (not constructed), "connecting" (server.connect pending), "open"
\* (connected), "failed" (server.connect rejected), "gone" (connection ended and
\* session out of the Map: nothing refers to it any more)
\* sock: its connection is open; hook: it watches res for "close"
NoAdapter == [st |-> "none", sock |-> FALSE, hook |-> FALSE]
Gone == [st |-> "gone", sock |-> FALSE, hook |-> FALSE]
NoLast == [step |-> "none"]

Range(s) == { s[i] : i \in 1 .. Len(s) }

----------------------------------------------------------------------------
\* The Map sseTransports (insertion ordered)

MapHas(reg, id) == id \in Range(reg)
MapSet(reg, id) == IF MapHas(reg, id) THEN reg ELSE Append(reg, id)
\* (mutant: removal by position, splice(indexOf(id), 1): position -1 of an
\* absent id takes the last entry)
MapDelete_splice(reg, id) ==
  IF \E i \in 1 .. Len(reg) : reg[i] = id
  THEN SelectSeq(reg, LAMBDA x : x # id)
  ELSE SubSeq(reg, 1, Len(reg) - 1)

MapDelete(reg, id) == SelectSeq(reg, LAMBDA x : x # id)

\* A live Map iterator skips deleted entries and sees appended ones: deleting
\* an entry before the cursor moves the cursor back by one.
IterAfterDelete(reg, it, id) ==
  IF \E p \in 1 .. it : p <= Len(reg) /\ reg[p] = id THEN it - 1 ELSE it

----------------------------------------------------------------------------
\* http.ServerResponse: "none" (nothing sent), "headers" (headers sent, not
\* ended), "ended" (end() called), "rewritten" (writeHead called although the
\* headers had been sent).

writableEnded(res) == res = "ended"
WriteHeadEnd(res) == IF res = "none" THEN "ended" ELSE "rewritten"

\* catch block of handleHttpRequest
CatchBlock(res) == IF ~ writableEnded(res) THEN WriteHeadEnd(res) ELSE res
CatchStatus(res) == IF ~ writableEnded(res) THEN 500 ELSE 0

----------------------------------------------------------------------------
\* startTransport

\* (mutant: the failure is reported without its cause)
StartRejection_generic(err) == [name |-> "Error", origin |-> "startTransport"]

\* what startTransport() rejects with when a sub-start fails with err: the
\* awaits of l.64 and l.69 stand in no try block
StartRejection(err) == err

wantsHttp == config.supportHttp \/ config.supportSse

\* second half of startTransport: the HTTP transport, or done
StartHttpOrResolve ==
  IF wantsHttp
  THEN /\ startPc' = "http"
       /\ httpServer' = "binding"
       /\ attempts' = [attempts EXCEPT !.listen = @ + 1]
  ELSE /\ startPc' = "resolved"
       /\ UNCHANGED << httpServer, attempts >>

\* (mutant: both transports are started at once, as with Promise.all)
startTransport_concurrent ==
  /\ startPc = "init"
  /\ IF config.supportStdio
     THEN /\ startPc' = "stdio"
          /\ attempts' = [connect |-> 1, listen |-> IF wantsHttp THEN 1 ELSE 0]
          /\ httpServer' = IF wantsHttp THEN "binding" ELSE httpServer
     ELSE StartHttpOrResolve
  /\ last' = NoLast
  /\ UNCHANGED << config, closed, startError, subError, sseTransports, adapter, nextId,
                  post, shutVars >>

startTransport ==
  /\ startPc = "init"
  /\ IF config.supportStdio
     THEN /\ startPc' = "stdio"
          /\ attempts' = [attempts EXCEPT !.connect = @ + 1]
          /\ UNCHANGED httpServer
     ELSE StartHttpOrResolve
  /\ last' = NoLast
  /\ UNCHANGED << config, closed, startError, subError, sseTransports, adapter, nextId,
                  post, shutVars >>

\* await this.server.connect(transport) of startStdioTransport resolves
StdioConnected ==
  /\ startPc = "stdio"
  /\ StartHttpOrResolve
  /\ last' = NoLast
  /\ UNCHANGED << config, closed, startError, subError, sseTransports, adapter, nextId,
                  post, shutVars >>

\* ... or rejects: the exception leaves startTransport
StdioConnectFailed ==
  /\ startPc = "stdio"
  /\ startPc' = "rejected"
  /\ subError' = ConnectError
  /\ startError' = StartRejection(ConnectError)
  /\ last' = NoLast
  /\ UNCHANGED << config, closed, attempts, httpServer, sseTransports, adapter, nextId,
                  post, shutVars >>

\* listen callback of startHttpTransport
Listening ==
  /\ startPc = "http"
  /\ httpServer = "binding"
  /\ httpServer' = "listening"
  /\ startPc' = "resolved"
  /\ last' = NoLast
  /\ UNCHANGED << config, closed, startError, subError, attempts, sseTransports, adapter,
                  nextId, post, shutVars >>

\* "error" event of the listener while binding
ListenFailed ==
  /\ startPc = "http"
  /\ httpServer = "binding"
  /\ httpServer' = "bindFailed"
  /\ startPc' = "rejected"
  /\ subError' = ListenError
  /\ startError' = StartRejection(ListenError)
  /\ last' = NoLast
  /\ UNCHANGED << config, closed, attempts, sseTransports, adapter, nextId, post,
                  shutVars >>

----------------------------------------------------------------------------
\* Requests

Methods == { "GET", "POST", "OPTIONS", "PUT" }
\* BadUrl stands for a request whose url/Host make "new URL(...)" throw.
BadUrl == "%"
Paths == { "/sse", "/health", "/message", "/other", BadUrl }

\* sid: the sessionId query parameter (NoId when absent); hdrValid: verdict of
\* validateRequestHeaders; rateAllowed: verdict checkRateLimit gives if asked.
Requests ==
  { [method |-> m, path |-> p, sid |-> s, hdrValid |-> h, rateAllowed |-> r] :
      m \in Methods, p \in Paths, s \in {NoId} \cup Ids, h \in BOOLEAN,
      r \in BOOLEAN }

\* The requests of a client that opens sessions, posts to them and probes
\* /health, all admitted by the security gate.
SessionRequests ==
  { req \in Requests :
      /\ req.hdrValid /\ req.rateAllowed
      /\ \/ req.method = "GET" /\ req.path \in { "/sse", "/health" }
         \/ req.method = "POST" /\ req.path = "/message" }

\* What a handler produced before its first suspension point.
\*   status: code of the response written (0: none written yet)
\*   await: the promise the handler suspends on ("none": it returned)
\*   gate: number of verdicts asked of the securityValidator
\*         (validateRequestHeaders, checkRateLimit)
Outcome(reg) ==
  [status |-> 0, secEvent |-> "none", rate |-> "notChecked", handler |-> "none",
   cors |-> FALSE, reg |-> reg, newId |-> NoId, target |-> NoId, count |-> -1,
   await |-> "none", gate |-> 0]

\* (mutants of the capacity check: ">" for ">=", and one slot too early)
AtCapacity_gt(reg, max) == Len(reg) > max
AtCapacity_early(reg, max) == Len(reg) + 1 >= max
\* (mutant: the check counts the sessions ever opened, not those registered)
AtCapacity_everOpened(reg, max) == nextId - 1 >= max

\* "this.sseTransports.size >= this.config.maxConnections"
AtCapacity(reg, max) == Len(reg) >= max

\* handleSseConnection up to "await this.server.connect(transport)";
\* id is the sessionId of the SSEServerTransport constructed
handleSseConnection(reg, max, id) ==
  IF AtCapacity(reg, max)
  THEN [Outcome(reg) EXCEPT !.handler = "sse", !.status = 503]
  ELSE [Outcome(reg) EXCEPT !.handler = "sse", !.reg = MapSet(reg, id),
                            !.newId = id, !.await = "connect"]

\* (mutant: no test for a missing sessionId, the lookup answers for it)
handlePostMessage_lookupOnly(sid, reg) ==
  IF ~ MapHas(reg, sid)
  THEN [Outcome(reg) EXCEPT !.handler = "post", !.status = 404]
  ELSE [Outcome(reg) EXCEPT !.handler = "post", !.target = sid,
                            !.await = "post"]

\* (mutant: the session is taken out of the Map when a message is handed on)
handlePostMessage_evict(sid, reg) ==
  IF sid = NoId
  THEN [Outcome(reg) EXCEPT !.handler = "post", !.status = 400]
  ELSE IF ~ MapHas(reg, sid)
       THEN [Outcome(reg) EXCEPT !.handler = "post", !.status = 404]
       ELSE [Outcome(reg) EXCEPT !.handler = "post", !.target = sid,
                                 !.reg = MapDelete(reg, sid),
                                 !.await = "post"]

\* handlePostMessage up to "await transport.handlePostMessage(req, res)"
handlePostMessage(sid, reg) ==
  IF sid = NoId
  THEN [Outcome(reg) EXCEPT !.handler = "post", !.status = 400]
  ELSE IF ~ MapHas(reg, sid)
       THEN [Outcome(reg) EXCEPT !.handler = "post", !.status = 404]
       ELSE [Outcome(reg) EXCEPT !.handler = "post", !.target = sid,
                                 !.await = "post"]

handleOptionsRequest(reg) ==
  [Outcome(reg) EXCEPT !.handler = "options", !.status = 204, !.cors = TRUE]

\* (mutant: reports the size of the activeConnections set, which nothing fills)
handleHealthCheck_activeConnections(reg) ==
  [Outcome(reg) EXCEPT !.handler = "health", !.status = 200, !.count = 0]

handleHealthCheck(reg) ==
  [Outcome(reg) EXCEPT !.handler = "health", !.status = 200, !.count = Len(reg)]

\* (mutant: routes by path first: 404 for a path that is not served, 405 for
\* a served path under a method it does not take)
Dispatch_pathFirst(req, reg, cfg, id) ==
  IF req.path = BadUrl
  THEN [Outcome(reg) EXCEPT !.status = CatchStatus("none")]
  ELSE IF req.path = "/sse"
       THEN IF req.method # "GET"
            THEN [Outcome(reg) EXCEPT !.status = 405]
            ELSE IF cfg.supportSse
                 THEN handleSseConnection(reg, cfg.maxConnections, id)
                 ELSE [Outcome(reg) EXCEPT !.status = 404]
       ELSE IF req.path = "/health"
            THEN IF req.method = "GET"
                 THEN handleHealthCheck(reg)
                 ELSE [Outcome(reg) EXCEPT !.status = 405]
            ELSE IF req.path = "/message"
                 THEN IF req.method = "POST"
                      THEN handlePostMessage(req.sid, reg)
                      ELSE [Outcome(reg) EXCEPT !.status = 405]
                 ELSE [Outcome(reg) EXCEPT !.status = 404]

\* "Route requests" of handleHttpRequest, from "new URL" on
Dispatch(req, reg, cfg, id) ==
  IF req.path = BadUrl
  THEN [Outcome(reg) EXCEPT !.status = CatchStatus("none")]
  ELSE IF req.method = "GET"
       THEN IF req.path = "/sse" /\ cfg.supportSse
            THEN handleSseConnection(reg, cfg.maxConnections, id)
            ELSE IF req.path = "/health"
                 THEN handleHealthCheck(reg)
                 ELSE [Outcome(reg) EXCEPT !.status = 404]
       ELSE IF req.method = "POST"
            THEN IF req.path = "/message"
                 THEN handlePostMessage(req.sid, reg)
                 ELSE [Outcome(reg) EXCEPT !.status = 404]
            ELSE [Outcome(reg) EXCEPT !.status = 405]

\* (mutant: the rate limit is consulted before the headers are validated)
handleHttpRequest_rateFirst(req, reg, cfg, id) ==
  IF ~ req.rateAllowed
  THEN [Outcome(reg) EXCEPT !.rate = "denied", !.status = 429, !.gate = 1]
  ELSE IF ~ req.hdrValid
       THEN [Outcome(reg) EXCEPT !.secEvent = "suspicious_headers:medium",
                                 !.rate = "allowed", !.status = 403,
                                 !.gate = 2]
       ELSE LET out == IF req.method = "OPTIONS"
                       THEN handleOptionsRequest(reg)
                       ELSE Dispatch(req, reg, cfg, id)
            IN  [out EXCEPT !.rate = "allowed", !.gate = out.gate + 2]

\* (mutant: the preflight is answered before the rate limit is consulted)
handleHttpRequest_optionsFirst(req, reg, cfg, id) ==
  IF ~ req.hdrValid
  THEN [Outcome(reg) EXCEPT !.secEvent = "suspicious_headers:medium",
                            !.status = 403, !.gate = 1]
  ELSE IF req.method = "OPTIONS"
       THEN [handleOptionsRequest(reg) EXCEPT !.gate = 1]
       ELSE IF ~ req.rateAllowed
            THEN [Outcome(reg) EXCEPT !.rate = "denied", !.status = 429,
                                      !.gate = 2]
            ELSE LET out == Dispatch(req, reg, cfg, id)
                 IN  [out EXCEPT !.rate = "allowed", !.gate = out.gate + 2]

\* handleHttpRequest up to its first suspension point
handleHttpRequest(req, reg, cfg, id) ==
  IF ~ req.hdrValid
  THEN [Outcome(reg) EXCEPT !.secEvent = "suspicious_headers:medium",
                            !.status = 403, !.gate = 1]
  ELSE IF ~ req.rateAllowed
       THEN [Outcome(reg) EXCEPT !.rate = "denied", !.status = 429,
                                 !.gate = 2]
       ELSE LET out == IF req.method = "OPTIONS"
                       THEN handleOptionsRequest(reg)
                       ELSE Dispatch(req, reg, cfg, id)
            IN  [out EXCEPT !.rate = "allowed", !.gate = out.gate + 2]

----------------------------------------------------------------------------
\* Request handling

\* the listener delivers requests while it listens, and on the connections it
\* still holds after httpServer.close() was called
Serving == httpServer \in { "listening", "closing" }

\* shutdown() is the last thing the owning process does: once it has settled
\* the process exits
Running == shutdownPc \notin { "resolved", "rejected" }

\* the query parameter is read by POST /message only
WellFormed(req) ==
  req.sid # NoId => (req.method = "POST" /\ req.path = "/message")

\* A request arrives: handleHttpRequest runs to its first suspension point.
HttpRequest(req) ==
  /\ Running
  /\ Serving
  /\ WellFormed(req)
  /\ LET out == handleHttpRequest(req, sseTransports, config, nextId)
     IN  /\ out.await = "connect" => nextId <= MaxIds
         /\ out.await = "post" => post = NoId
         /\ sseTransports' = out.reg
         /\ IF out.await = "connect"
            THEN /\ adapter' = [adapter EXCEPT ![out.newId] =
                                  [st |-> "connecting", sock |-> TRUE,
                                   hook |-> FALSE]]
                 /\ nextId' = nextId + 1
            ELSE UNCHANGED << adapter, nextId >>
         /\ post' = IF out.await = "post" THEN out.target ELSE post
         /\ last' = [step |-> "request", method |-> req.method,
                     path |-> req.path, sid |-> req.sid,
                     hdrValid |-> req.hdrValid, rate |-> out.rate,
                     secEvent |-> out.secEvent, handler |-> out.handler,
                     status |-> out.status, cors |-> out.cors,
                     regBefore |-> sseTransports, regAfter |-> out.reg,
                     newId |-> out.newId, target |-> out.target,
                     count |-> out.count, await |-> out.await,
                     gate |-> out.gate]
  /\ UNCHANGED << config, closed, startVars, httpServer, shutVars >>

\* (mutant: a close callback that only logs)
OnClose_logOnly(reg, id) == reg

\* transport.onclose of handleSseConnection
OnClose(reg, id) == MapDelete(reg, id)

\* "await this.server.connect(transport)" of handleSseConnection resolves: the
\* adapter has started its event stream on res and watches it for "close"
ConnectResolved(id) ==
  /\ Running
  /\ adapter[id].st = "connecting"
  /\ adapter' = [adapter EXCEPT ![id] = [@ EXCEPT !.st = "open",
                                            !.hook = TRUE]]
  /\ last' = [step |-> "connectDone", sid |-> id, outcome |-> "resolved",
              progress |-> "headers", res |-> "headers", status |-> 200]
  /\ UNCHANGED << config, closed, startVars, httpServer, sseTransports, nextId, post,
                  shutVars >>

\* ... or rejects after the adapter got res as far as progress: the catch
\* block of handleHttpRequest runs.  The adapter watches res only if it had
\* started the stream.
Progress == { "none", "headers", "ended" }

ConnectRejected(id, progress) ==
  /\ Running
  /\ adapter[id].st = "connecting"
  /\ adapter' = [adapter EXCEPT ![id] = [@ EXCEPT !.st = "failed",
                                            !.hook = (progress = "headers")]]
  /\ last' = [step |-> "connectDone", sid |-> id, outcome |-> "rejected",
              progress |-> progress, res |-> CatchBlock(progress),
              status |-> CatchStatus(progress)]
  /\ UNCHANGED << config, closed, startVars, httpServer, sseTransports, nextId, post,
                  shutVars >>

\* "await transport.handlePostMessage(req, res)" resolves: the adapter has
\* written and ended its reply
PostResolved ==
  /\ Running
  /\ post # NoId
  /\ post' = NoId
  /\ last' = [step |-> "postDone", sid |-> post, outcome |-> "resolved",
              progress |-> "ended", res |-> "ended", status |-> 0]
  /\ UNCHANGED << config, closed, startVars, httpServer, sseTransports, adapter, nextId,
                  shutVars >>

\* ... or rejects: the catch block of handleHttpRequest runs
PostRejected(progress) ==
  /\ Running
  /\ post # NoId
  /\ post' = NoId
  /\ last' = [step |-> "postDone", sid |-> post, outcome |-> "rejected",
              progress |-> progress, res |-> CatchBlock(progress),
              status |-> CatchStatus(progress)]
  /\ UNCHANGED << config, closed, startVars, httpServer, sseTransports, adapter, nextId,
                  shutVars >>

\* The connection of a session ends (client gone, idle timeout, or the end of
\* a closed stream).  An adapter that watches res runs its close callback.
SocketClosed(id) ==
  /\ Running
  /\ adapter[id].sock
  /\ adapter[id].st \in { "open", "failed" }
  /\ adapter' = [adapter EXCEPT ![id] =
                   IF adapter[id].hook \/ ~ MapHas(sseTransports, id)
                   THEN Gone
                   ELSE [@ EXCEPT !.sock = FALSE]]
  /\ IF adapter[id].hook
     THEN /\ sseTransports' = OnClose(sseTransports, id)
          /\ iter' = IterAfterDelete(sseTransports, iter, id)
          /\ closed' = closed \cup { id }
          /\ last' = [step |-> "onclose", sid |-> id,
                      regBefore |-> sseTransports,
                      regAfter |-> OnClose(sseTransports, id)]
     ELSE /\ UNCHANGED << sseTransports, iter, closed >>
          /\ last' = NoLast
  /\ UNCHANGED << config, startVars, httpServer, nextId, post, shutdownPc,
                  closing, closeCalls, listenerOps >>

\* (mutant: an error callback that drops the session as the close callback
\* does)
OnErrorCallback_removes(reg, id) == SelectSeq(reg, LAMBDA x : x # id)

\* transport.onerror of handleSseConnection: logs
OnErrorCallback(reg, id) == reg

\* An adapter reports an error on a session whose connection is up.
OnError(id) ==
  /\ Running
  /\ adapter[id].sock
  /\ sseTransports' = OnErrorCallback(sseTransports, id)
  /\ last' = [step |-> "onerror", sid |-> id, regBefore |-> sseTransports,
              regAfter |-> sseTransports']
  /\ UNCHANGED << config, closed, startVars, httpServer, adapter, nextId,
                  post, shutVars >>

----------------------------------------------------------------------------
\* shutdown

\* this.sseTransports.clear()
MapClear(reg) == << >>

\* The for-of loop of shutdown at cursor it over reg: close the next session
\* and suspend, or leave the loop: clear the Map, then close the listener if
\* there is one.
ShutdownLoop(reg, it) ==
  IF it < Len(reg)
  THEN /\ sseTransports' = reg
       /\ iter' = it + 1
       /\ closing' = reg[it + 1]
       /\ closeCalls' = closeCalls \cup { reg[it + 1] }
       /\ shutdownPc' = "awaitClose"
       /\ UNCHANGED << httpServer, listenerOps >>
  ELSE /\ sseTransports' = MapClear(reg)
       /\ iter' = 0
       /\ closing' = NoId
       /\ UNCHANGED closeCalls
       /\ IF httpServer # "undefined"
          THEN /\ listenerOps' = listenerOps + 1
               /\ httpServer' = IF httpServer = "listening" THEN "closing"
                                ELSE httpServer
               /\ shutdownPc' = "awaitListener"
          ELSE /\ shutdownPc' = "resolved"
               /\ UNCHANGED << httpServer, listenerOps >>

\* shutdown() is called once startTransport() has settled
shutdown ==
  /\ shutdownPc = "idle"
  /\ startPc \in { "resolved", "rejected" }
  /\ ShutdownLoop(sseTransports, 0)
  /\ last' = NoLast
  /\ UNCHANGED << config, closed, startVars, adapter, nextId, post >>

\* "await transport.close()" resolves: the adapter has ended its stream and
\* run its close callback; the loop goes on.
CloseResolved ==
  /\ shutdownPc = "awaitClose"
  /\ adapter' = [adapter EXCEPT ![closing] = IF @.sock THEN @ ELSE Gone]
  /\ ShutdownLoop(OnClose(sseTransports, closing),
                  IterAfterDelete(sseTransports, iter, closing))
  /\ closed' = closed \cup { closing }
  /\ last' = [step |-> "onclose", sid |-> closing, regBefore |-> sseTransports,
              regAfter |-> OnClose(sseTransports, closing)]
  /\ UNCHANGED << config, startVars, nextId, post >>

\* ... or rejects: the exception leaves shutdown()
CloseRejected ==
  /\ shutdownPc = "awaitClose"
  /\ shutdownPc' = "rejected"
  /\ last' = NoLast
  /\ UNCHANGED << config, closed, startVars, httpServer, sseTransports, adapter, nextId,
                  post, iter, closing, closeCalls, listenerOps >>

\* no connection is left on the listener
Drained == post = NoId /\ \A id \in Ids : ~ adapter[id].sock

\* callback of httpServer.close(): the listener has closed
ListenerClosed ==
  /\ shutdownPc = "awaitListener"
  /\ Drained
  /\ httpServer' = "closed"
  /\ shutdownPc' = "resolved"
  /\ last' = NoLast
  /\ UNCHANGED << config, closed, startVars, sseTransports, adapter, nextId, post, iter,
                  closing, closeCalls, listenerOps >>

----------------------------------------------------------------------------

\* the configurations the constructor is given: stdio alone (the default),
\* plain HTTP without stdio, and stdio with HTTP and SSE, each with
\* maxConnections = MaxConn
Configs ==
  { [supportStdio |-> c[1], supportHttp |-> c[2], supportSse |-> c[3],
     maxConnections |-> m] :
      c \in { << TRUE, FALSE, FALSE >>, << FALSE, TRUE, FALSE >>,
              << TRUE, TRUE, TRUE >> },
      m \in { MaxConn } }

Init ==
  /\ config \in Configs
  /\ startPc = "init"
  /\ startError = NoError
  /\ subError = NoError
  /\ attempts = [connect |-> 0, listen |-> 0]
  /\ httpServer = "undefined"
  /\ sseTransports = << >>
  /\ adapter = [id \in Ids |-> NoAdapter]
  /\ nextId = 1
  /\ post = NoId
  /\ shutdownPc = "idle"
  /\ iter = 0
  /\ closing = NoId
  /\ closeCalls = {}
  /\ listenerOps = 0
  /\ closed = {}
  /\ last = NoLast

Next ==
  \/ startTransport
  \/ StdioConnected
  \/ StdioConnectFailed
  \/ Listening
  \/ ListenFailed
  \/ \E req \in SessionRequests : HttpRequest(req)
  \/ \E id \in Ids : ConnectResolved(id)
  \/ \E id \in Ids, p \in Progress : ConnectRejected(id, p)
  \/ PostResolved
  \/ \E p \in Progress : PostRejected(p)
  \/ \E id \in Ids : SocketClosed(id)
  \/ \E id \in Ids : OnError(id)
  \/ shutdown
  \/ CloseResolved
  \/ CloseRejected
  \/ ListenerClosed

Spec == Init /\ [][Next]_vars

\* The server in service under requests of every kind: sessions open, connect
\* and end; no shutdown.
NextRouter ==
  \/ startTransport
  \/ StdioConnected
  \/ StdioConnectFailed
  \/ Listening
  \/ ListenFailed
  \/ \E req \in Requests : HttpRequest(req)
  \/ \E id \in Ids : ConnectResolved(id)
  \/ \E id \in Ids : SocketClosed(id)

SpecRouter == Init /\ [][NextRouter]_vars

----------------------------------------------------------------------------
\* Properties

\* the step that just ran handled a GET /sse that passed the security checks
OpenedSse ==
  /\ last.step = "request"
  /\ last.method = "GET" /\ last.path = "/sse"
  /\ last.hdrValid /\ last.rate = "allowed"

\* C1: in every reachable state the number of sessions in sseTransports is at
\* most config.maxConnections (the capacity check and the insert are one step
\* of HttpRequest).
C1_RegistryWithinMax == Len(sseTransports) <= config.maxConnections

\* a GET /sse arrived at a full Registry while shutdown was closing sessions
C1_Witness ==
  /\ OpenedSse
  /\ Len(last.regBefore) = config.maxConnections
  /\ Len(sseTransports) = config.maxConnections
  /\ shutdownPc = "awaitClose"

\* C2: a GET /sse that passes the security checks while the Registry size
\* equals maxConnections is answered 503, creates no session and leaves the
\* Registry as it was.
C2_FullRegistryRejects ==
  (OpenedSse /\ Len(last.regBefore) = config.maxConnections)
    => /\ last.status = 503
       /\ last.newId = NoId
       /\ last.await = "none"
       /\ last.regAfter = last.regBefore
       /\ sseTransports = last.regBefore

C2_Witness ==
  /\ OpenedSse
  /\ Len(last.regBefore) = config.maxConnections
  /\ last.status = 503
  /\ config.maxConnections = MaxConn

\* C3: a GET /sse that passes the security checks while the streaming endpoint
\* is enabled and the Registry size is below maxConnections gets a session
\* identifier that was not in the Registry before, and the Registry grows by
\* exactly one, by that identifier.
C3_AdmitFreshId ==
  (OpenedSse /\ config.supportSse
     /\ Len(last.regBefore) < config.maxConnections)
    => /\ last.newId \in Ids
       /\ ~ MapHas(last.regBefore, last.newId)
       /\ Len(last.regAfter) = Len(last.regBefore) + 1
       /\ last.regAfter = Append(last.regBefore, last.newId)
       /\ sseTransports = last.regAfter

\* a session admitted next to one already registered, after an earlier one
\* had closed
C3_Witness ==
  /\ OpenedSse
  /\ last.newId \in Ids
  /\ Len(last.regBefore) = 1
  /\ closed # {}

\* the step that just ran handled a POST /message?sessionId=X that passed the
\* security checks
PostedTo(X) ==
  /\ last.step = "request"
  /\ last.handler = "post"
  /\ last.sid = X

\* X was admitted: its transport was constructed and registered
Admitted(X) == X < nextId

\* C4: a POST /message?sessionId=X that arrives while X is open (admitted, its
\* close callback has not run) is handed to X's adapter; one that arrives
\* after X's close callback has run reaches no adapter and is answered 404.
C4_ForwardWhileOpen ==
  \A X \in Ids :
    PostedTo(X) =>
      /\ (Admitted(X) /\ X \notin closed)
           => (last.target = X /\ last.await = "post" /\ last.status = 0)
      /\ X \in closed
           => (last.target = NoId /\ last.await = "none" /\ last.status = 404)

\* a POST to a session whose close callback has run, answered 404
C4_Witness ==
  \E X \in Ids : PostedTo(X) /\ X \in closed /\ last.status = 404

\* C5: when shutdown() has resolved the Registry is empty; a listener that was
\* created has reported closed; without a listener no listener operation was
\* performed.
C5_ShutdownResolvesClean ==
  shutdownPc = "resolved"
    => /\ Len(sseTransports) = 0
       /\ httpServer # "undefined" => httpServer = "closed"
       /\ httpServer = "undefined" => listenerOps = 0

\* C6: when a close fails during shutdown's close-all, close has still been
\* attempted on every registered session and the Registry has been cleared by
\* the time shutdown() settles.
C6_BestEffortCloseAll ==
  shutdownPc = "rejected"
    => /\ Range(sseTransports) \subseteq closeCalls
       /\ sseTransports = << >>

\* the registry was left alone by the step that just ran
RegistryUntouched ==
  /\ last.regAfter = last.regBefore
  /\ sseTransports = last.regBefore
  /\ last.newId = NoId /\ last.target = NoId /\ last.await = "none"

\* C7: a request whose headers fail validation raises a suspicious_headers
\* event of severity medium and is answered 403; checkRateLimit is not
\* invoked, no preflight or route handler runs, the Registry is unchanged.
C7_InvalidHeadersStopAtGate ==
  (last.step = "request" /\ ~ last.hdrValid)
    => /\ last.secEvent = "suspicious_headers:medium"
       /\ last.status = 403
       /\ last.rate = "notChecked"
       /\ last.handler = "none" /\ ~ last.cors
       /\ RegistryUntouched

\* a GET /sse with invalid headers, with room left in a non-empty Registry
C7_Witness ==
  /\ last.step = "request" /\ ~ last.hdrValid
  /\ last.method = "GET" /\ last.path = "/sse"
  /\ config.supportSse
  /\ Len(sseTransports) = 1 /\ config.maxConnections = MaxConn
  /\ last.status = 403

\* C8: the rate limit is consulted only after the headers passed validation and
\* before preflight and dispatch: a request over its budget is answered 429 and
\* reaches no preflight or route handler (OPTIONS included); an OPTIONS request
\* that passes both checks is answered 204 with the CORS headers whatever its
\* path, and the Registry is untouched.
C8_RateLimitThenPreflight ==
  last.step = "request"
    => /\ last.rate # "notChecked" => last.hdrValid
       /\ last.handler # "none" => last.rate = "allowed"
       /\ (last.hdrValid /\ last.rate = "denied")
            => /\ last.status = 429
               /\ last.handler = "none" /\ ~ last.cors
               /\ RegistryUntouched
       /\ (last.hdrValid /\ last.rate = "allowed" /\ last.method = "OPTIONS")
            => /\ last.status = 204 /\ last.cors
               /\ last.handler = "options"
               /\ RegistryUntouched

\* an OPTIONS request over its rate budget, answered 429
C8_Witness ==
  /\ last.step = "request"
  /\ last.method = "OPTIONS" /\ last.path = "/message"
  /\ last.hdrValid /\ last.rate = "denied"
  /\ last.status = 429
  /\ Len(sseTransports) = 1

\* C9: no response is written twice: when a handler's promise rejects, the
\* catch block writes 500 only if nothing, not even headers, had been sent.
C9_NoSecondWrite ==
  last.step \in { "connectDone", "postDone" }
    => /\ last.res # "rewritten"
       /\ last.status = 500 => last.progress = "none"

\* C10 as claimed: a failed sub-start makes startTransport() fail with a
\* TransportStartError carrying the cause.
C10_RejectsWithTransportStartError ==
  startPc = "rejected"
    => /\ startError.name = "TransportStartError"
       /\ startError.cause = subError

\* C10, amended: a failed sub-start makes startTransport() fail with the
\* error of that sub-start itself, and neither sub-start is tried again.
C10_RejectsWithCause ==
  /\ subError # NoError => (startPc = "rejected" /\ startError = subError)
  /\ startPc = "rejected" => subError # NoError
  /\ attempts.connect <= 1 /\ attempts.listen <= 1

\* the listener failed to bind after the stdio transport had connected
C10_Witness ==
  /\ startPc = "rejected"
  /\ subError = ListenError
  /\ attempts = [connect |-> 1, listen |-> 1]

\* C11: startTransport() starts the stdio transport (when enabled) and then
\* the HTTP transport (when supportHttp or supportSse is set), never both at
\* once: while the stdio connect is pending no listener exists, the listener
\* is created only after the connect has completed, and after a failed
\* connect no listener is ever created or bound.
C11_StdioBeforeHttp ==
  /\ attempts.connect = (IF config.supportStdio /\ startPc # "init" THEN 1 ELSE 0)
  /\ startPc = "stdio" => (httpServer = "undefined" /\ attempts.listen = 0)
  /\ subError = ConnectError => (httpServer = "undefined" /\ attempts.listen = 0)
  /\ httpServer # "undefined" => (wantsHttp /\ attempts.listen = 1)
  /\ (attempts.listen = 1 /\ config.supportStdio)
       => (attempts.connect = 1 /\ startPc \in { "http", "resolved", "rejected" })

\* the stdio connect failed in a configuration that asks for HTTP too, and
\* shutdown() ran afterwards: there is no listener
C11_Witness ==
  /\ wantsHttp
  /\ startPc = "rejected" /\ subError = ConnectError
  /\ httpServer = "undefined"
  /\ shutdownPc = "resolved"

\* a request that passed both checks of the security validator
PassedGate == last.step = "request" /\ last.hdrValid /\ last.rate = "allowed"

\* C12: a POST /message that passes the security checks is answered 400 when
\* it carries no sessionId and 404 when its sessionId is not a key of the Map
\* (never registered, or removed already); in both cases no adapter is handed
\* the request.
C12_PostNeedsRegisteredSession ==
  (PassedGate /\ last.method = "POST" /\ last.path = "/message") =>
     /\ last.handler = "post"
     /\ last.sid = NoId => last.status = 400
     /\ (last.sid # NoId /\ ~ MapHas(last.regBefore, last.sid))
          => last.status = 404
     /\ (last.sid = NoId \/ ~ MapHas(last.regBefore, last.sid))
          => (last.target = NoId /\ last.await = "none")

\* a POST for a session that was closed before is answered 404 while another
\* session is registered
C12_Witness ==
  /\ PassedGate /\ last.handler = "post"
  /\ last.sid \in closed
  /\ last.regBefore # << >>
  /\ last.status = 404

\* C13: a GET /health that passes the security checks is answered 200 with
\* activeConnections equal to the size of the Map at that moment (0
\* included), asks the security validator nothing beyond the two checks every
\* request passes, and leaves the Map as it was.
C13_HealthReportsSize ==
  (PassedGate /\ last.method = "GET" /\ last.path = "/health") =>
     /\ last.handler = "health"
     /\ last.status = 200
     /\ last.count = Len(last.regBefore)
     /\ last.count = Len(sseTransports)
     /\ last.gate = 2
     /\ last.secEvent = "none"
     /\ RegistryUntouched
     /\ last.await = "none"

\* the health check reports a full Map after an earlier session was closed
C13_Witness ==
  /\ PassedGate /\ last.handler = "health"
  /\ closed # {}
  /\ last.count = config.maxConnections
  /\ Len(sseTransports) = config.maxConnections

\* the routes the router serves
Served ==
  \/ last.method = "GET" /\ last.path = "/sse" /\ config.supportSse
  \/ last.method = "GET" /\ last.path = "/health"
  \/ last.method = "POST" /\ last.path = "/message"

KnownPaths == { "/sse", "/health", "/message" }

\* C14 as stated: a request past the security checks that is no preflight and
\* no served route is answered 404 when its path is not /sse, /health or
\* /message, and 405 when its path is one of them under another method; GET
\* /sse with streaming disabled is answered 404 and creates no session.
C14_NotFoundByPath ==
  (PassedGate /\ last.method # "OPTIONS" /\ ~ Served) =>
     /\ last.path \notin KnownPaths => last.status = 404
     /\ (last.path \in KnownPaths
           /\ ~ (last.method = "GET" /\ last.path = "/sse"))
          => last.status = 405
     /\ (last.method = "GET" /\ last.path = "/sse")
          => (last.status = 404 /\ RegistryUntouched)

\* C14 amended: such a request, when its URL parses, is answered by method
\* first: 405 when the method is neither GET nor POST, whatever the path, and
\* 404 when the method is GET or POST and the path is not one that method
\* serves (GET /sse with streaming disabled included); no handler runs and no
\* session is created.  A URL that does not parse is answered 500.
C14_NotFoundByMethod ==
  (PassedGate /\ last.method # "OPTIONS" /\ ~ Served) =>
     /\ (last.path # BadUrl /\ last.method \notin { "GET", "POST" })
          => last.status = 405
     /\ (last.path # BadUrl /\ last.method \in { "GET", "POST" })
          => last.status = 404
     /\ last.path = BadUrl => last.status = 500
     /\ last.handler = "none"
     /\ RegistryUntouched
     /\ last.await = "none"

\* a POST to /health, a path served under GET, is answered 404 while a
\* session is registered
C14_Witness ==
  /\ PassedGate
  /\ last.method = "POST" /\ last.path = "/health"
  /\ last.status = 404
  /\ sseTransports # << >>

\* C15: the handling of a POST /message (answered 400 or 404, or handed to
\* the adapter and then completed or failed) neither adds a session to the
\* Map nor removes one.
C15_PostKeepsRegistry ==
  [][ ( \/ last'.step = "postDone"
        \/ last'.step = "request" /\ last'.handler = "post" )
      => /\ sseTransports' = sseTransports
         /\ nextId' = nextId
         /\ adapter' = adapter ]_vars

\* the adapter failed a message handed to it while the Map is full
C15_Witness ==
  /\ last.step = "postDone"
  /\ last.outcome = "rejected"
  /\ Len(sseTransports) = config.maxConnections

\* C16: the removal of the close callback is idempotent: run for a sessionId
\* that is not in the Map (a second close, or a close after shutdown() has
\* emptied the Map) it leaves the Map as it was.
C16_RemovalIdempotent ==
  (last.step = "onclose" /\ ~ MapHas(last.regBefore, last.sid)) =>
     /\ last.regAfter = last.regBefore
     /\ Len(last.regAfter) >= 0

\* the close callback of a session runs a second time while another session
\* is registered
C16_Witness ==
  /\ last.step = "onclose"
  /\ last.sid \in closed
  /\ ~ MapHas(last.regBefore, last.sid)
  /\ last.regBefore # << >>
  /\ last.regAfter = last.regBefore

\* C17: a GET /sse that reaches handleSseConnection is admitted exactly when
\* the Map holds fewer than maxConnections sessions at that moment, however
\* many sessions were opened before, and a session whose close callback has
\* run holds no slot: with maxConnections = 2, after A and B are admitted and
\* A is closed, the next open is admitted again.
C17_FreedSlotReusable ==
  /\ (OpenedSse /\ config.supportSse) =>
        /\ (last.newId # NoId) <=> (Len(last.regBefore) < config.maxConnections)
        /\ (last.status = 503) <=> (Len(last.regBefore) >= config.maxConnections)
        /\ last.newId # NoId => Len(last.regAfter) = Len(last.regBefore) + 1
        /\ last.status = 503 => last.regAfter = last.regBefore
  /\ \A id \in closed : ~ MapHas(sseTransports, id)

\* more sessions than maxConnections have been opened, one of them was closed,
\* and the open that just ran was admitted into the freed slot and fills the
\* Map again
C17_Witness ==
  /\ OpenedSse
  /\ last.newId # NoId
  /\ closed # {}
  /\ last.newId > config.maxConnections
  /\ Len(last.regBefore) = config.maxConnections - 1
  /\ Len(sseTransports) = config.maxConnections

\* C18: a session whose server.connect was rejected does not stay in the Map:
\* every sessionId in the Map belongs to an adapter whose connect is pending
\* or has succeeded.
C18_FailedOpenNotRegistered ==
  \A id \in Range(sseTransports) : adapter[id].st \in { "connecting", "open" }

\* C19: the clear of shutdown() drops no session whose close was not called
\* (every session that left the Map had its close callback run or its close
\* called by shutdown()), and once shutdown() has cleared the Map no session
\* is admitted into it.
C19_ClearAfterCloseAndFinal ==
  /\ \A id \in Ids :
        (Admitted(id) /\ ~ MapHas(sseTransports, id))
           => id \in closed \cup closeCalls
  /\ shutdownPc \in { "awaitListener", "resolved" } => sseTransports = << >>

\* C20: the Map changes only by the insert of an admitted open, the delete of
\* a close callback and the clear of shutdown(); an error callback leaves it
\* as it was, so the session stays registered; and a delete that takes a
\* session out of the Map is the first close of that session.
C20_RegistryWriters ==
  [][ /\ last'.step = "onerror" => sseTransports' = sseTransports
      /\ sseTransports' # sseTransports =>
           \/ /\ last'.step = "request" /\ last'.handler = "sse"
              /\ ~ MapHas(sseTransports, nextId)
              /\ sseTransports' = MapSet(sseTransports, nextId)
           \/ /\ last'.step = "onclose"
              /\ last'.sid \notin closed
              /\ sseTransports' \in { MapDelete(sseTransports, last'.sid),
                                      MapClear(sseTransports) }
           \/ /\ shutdownPc' \in { "awaitListener", "resolved" }
              /\ sseTransports' = MapClear(sseTransports) ]_vars

\* an open session has just reported an error and is still registered
C20_Witness ==
  /\ last.step = "onerror"
  /\ adapter[last.sid].st = "open"
  /\ MapHas(sseTransports, last.sid)
  /\ Len(sseTransports) = config.maxConnections

====
